---------------------------- MODULE Spec2Model ----------------------------
(***************************************************************************)
(* A model of the two tweet loaders of twitter_postgres_parallel:          *)
(*   load_tweets.py        inserts one tweet per transaction,              *)
(*   load_tweets_batch.py  normalizes a batch into lists of row drafts and *)
(*                         writes them with multi-row inserts.             *)
(* Several loader processes (one connection each) share one PostgreSQL     *)
(* store.  The store is modelled at READ COMMITTED: a statement sees the   *)
(* committed rows and the rows of its own transaction; an insert that      *)
(* collides with an uncommitted row of another transaction waits for that  *)
(* transaction to end.  The connection has the semantics the loaders are   *)
(* written for (SQLAlchemy before 2.0): a statement outside a transaction  *)
(* autocommits, and connection.begin() inside a transaction joins it, so   *)
(* that only the outermost block commits and any rollback ends the whole   *)
(* transaction.                                                            *)
(***************************************************************************)
EXTENDS Integers, Sequences, FiniteSets, TLC

(***************************************************************************)
(* Bounds.                                                                 *)
(***************************************************************************)
\* the number of records in the input files of all loaders together
MaxTweets == 2

\* the number of rows given to _bulk_insert_sql
MaxRows == 11

\* the length of the lists given to batch and of the texts given to
\* remove_nulls
MaxLen == 5

Conns == {"p", "q"}

\* SQL NULL / Python None in a numeric column, and in a text column
NoId == 0
None == "None"
\* a local variable of a Python function that has not been assigned yet
Unbound == "Unbound"

(***************************************************************************)
(* The input records.  Each is a tweet object reduced to the fields the    *)
(* loaders read.  geo is the coordinate pair (a token) or None; place is   *)
(* None, a place object without a bounding box ("nobbox") or the token of  *)
(* its bounding box.                                                       *)
(***************************************************************************)
T1 ==
    [id |-> 1, text |-> "t1", created_at |-> "c1",
     user |-> [id |-> 1, screen_name |-> "s1", name |-> "n1", url |-> "a",
               geo_enabled |-> TRUE],
     in_reply_to_user_id |-> NoId, in_reply_to_screen_name |-> None,
     geo |-> "g1", place |-> None,
     urls |-> <<"b">>, user_mentions |-> <<>>, tags |-> <<"#x">>,
     media |-> <<>>]

T2 ==
    [id |-> 2, text |-> "t2", created_at |-> "c2",
     user |-> [id |-> 2, screen_name |-> "s2", name |-> "n2", url |-> None,
               geo_enabled |-> FALSE],
     in_reply_to_user_id |-> 1, in_reply_to_screen_name |-> "r1",
     geo |-> None, place |-> "bb2",
     urls |-> <<>>,
     user_mentions |-> <<[id |-> 3, name |-> "mn3", screen_name |-> "ms3"]>>,
     tags |-> <<>>,
     media |-> <<[media_url |-> "a", type |-> "photo"]>>]

\* the id of T1 again, with other fields
T3 ==
    [id |-> 1, text |-> "t3", created_at |-> "c3",
     user |-> [id |-> 2, screen_name |-> "s2", name |-> "n2", url |-> "b",
               geo_enabled |-> TRUE],
     in_reply_to_user_id |-> NoId, in_reply_to_screen_name |-> None,
     geo |-> None, place |-> "nobbox",
     urls |-> <<"a">>,
     user_mentions |-> <<[id |-> 1, name |-> "mn1", screen_name |-> "ms1"]>>,
     tags |-> <<"$y">>,
     media |-> <<>>]

\* no coordinates, a place without a bounding box, geolocation disabled
T4 ==
    [id |-> 2, text |-> "t4", created_at |-> "c4",
     user |-> [id |-> 1, screen_name |-> "s1", name |-> "n1", url |-> "a",
               geo_enabled |-> FALSE],
     in_reply_to_user_id |-> NoId, in_reply_to_screen_name |-> None,
     geo |-> None, place |-> "nobbox",
     urls |-> <<>>, user_mentions |-> <<>>, tags |-> <<>>, media |-> <<>>]

\* no coordinates and no place at all
T5 ==
    [id |-> 2, text |-> "t5", created_at |-> "c5",
     user |-> [id |-> 1, screen_name |-> "s1", name |-> "n1", url |-> "a",
               geo_enabled |-> TRUE],
     in_reply_to_user_id |-> NoId, in_reply_to_screen_name |-> None,
     geo |-> None, place |-> None,
     urls |-> <<>>, user_mentions |-> <<>>, tags |-> <<>>, media |-> <<>>]

Tweets == {T1, T2, T3, T4, T5}

(***************************************************************************)
(* The store.                                                              *)
(***************************************************************************)
Relations ==
    {"urls", "users", "tweets", "tweet_urls", "tweet_mentions", "tweet_tags",
     "tweet_media"}

Dependents == {"tweet_urls", "tweet_mentions", "tweet_tags", "tweet_media"}

EmptyDb == [R \in Relations |-> {}]

\* the columns of the unique constraint that ON CONFLICT DO NOTHING arbitrates
Key(R, row) ==
    CASE R = "urls" -> row.url
      [] R = "users" -> row.id_users
      [] R = "tweets" -> row.id_tweets
      [] OTHER -> row

VARIABLES
    db,          \* the committed rows of every relation
    tx,          \* tx[c]: the uncommitted rows of connection c's transaction
    seq,         \* the next value of the urls.id_urls sequence
    kind,        \* kind[c]: "single" (load_tweets.py) or "batch"
    pc,          \* pc[c]: the statement connection c executes next
    err,         \* err[c]: the exception that ended loader c, or None
    nread,       \* the number of input records read so far, by all loaders
    tweet,       \* tweet[c]: the record being processed
    k,           \* k[c]: the index in the entity list being looped over
    url,         \* url[c]: the argument of the running get_id_urls call
    res,         \* res[c]: the id get_id_urls returned last
    ret,         \* ret[c]: where the running get_id_urls call returns to
    geo_str,     \* geo_str[c], geo_coords[c]: the locals of the same name
    geo_coords,
    batches,     \* batches[c]: what batch(tweets, batch_size) has yet to yield
    batch_size,  \* batch_size[c]: args.batch_size
    input_tweets,\* input_tweets[c]: the batch being processed
    ti,          \* ti[c]: the index of tweet[c] in input_tweets[c]
    lists,       \* lists[c]: the draft lists of _insert_tweets
    wi,          \* wi[c]: the index in WriteOrder of the next bulk_insert
    log,         \* log[c]: the relations of the statements of this batch
    base,        \* base[c]: db when the running transaction scope began,
                 \*          plus what other connections committed since
    completed,   \* completed[c]: the rows written by the finished batches
    rets,        \* every <<url, id>> a get_id_urls call has returned
    loaded,      \* loaded[c]: what tweets held of the records being processed
                 \*            when their processing began
    rows, out, bpc, \* the input, result and position of _bulk_insert_sql
    args         \* the helper function called on its own and its arguments

storeVars == <<db, tx, seq>>
giuVars == <<url, res, ret>>
recVars == <<tweet, k, geo_str, geo_coords>>
batchVars == <<batches, batch_size, input_tweets, ti, lists, wi, log>>
histVars == <<base, completed, rets, loaded>>
bulkVars == <<rows, out, bpc, args>>
vars ==
    <<db, tx, seq, kind, pc, err, nread, tweet, k, url, res, ret, geo_str,
      geo_coords, batches, batch_size, input_tweets, ti, lists, wi, log, base,
      completed, rets, loaded, rows, out, bpc, args>>

Upd(f, c, v) == [f EXCEPT ![c] = v]

\* no helper function is called on its own
NoCall == [f |-> "none"]

\* a statement that sees the committed rows only
ViewCommitted(c, R) == db[R]

\* what a statement of connection c sees of relation R
View(c, R) == db[R] \cup tx[c][R]

\* the rows of R that exist physically, committed or not
AllRows(R) == db[R] \cup UNION {tx[c][R] : c \in Conns}

\* an insert that never waits
LockedNever(c, R, keys) == FALSE

\* another transaction holds an uncommitted row with one of these keys: an
\* insert of such a key waits until that transaction ends
Locked(c, R, keys) ==
    \E d \in Conns \ {c} : \E row \in tx[d][R] : Key(R, row) \in keys

RECURSIVE Range(_)
Range(s) == IF s = <<>> THEN {} ELSE {Head(s)} \cup Range(Tail(s))

\* INSERT INTO R VALUES drafts[1], drafts[2], ... ON CONFLICT DO NOTHING:
\* the rows it adds; a row gives way to a visible row, or an earlier row of
\* the same statement, with its key
Inserted(c, R, drafts) ==
    {drafts[i] : i \in
        {j \in 1..Len(drafts) :
            /\ \A row \in View(c, R) : Key(R, row) # Key(R, drafts[j])
            /\ \A h \in 1..(j - 1) : Key(R, drafts[h]) # Key(R, drafts[j])}}

CanInsert(c, R, drafts) ==
    ~Locked(c, R, {Key(R, d) : d \in Range(drafts)})

\* no with connection.begin() block is open
InTransactionNever(c) == FALSE

\* connection c is inside a with connection.begin() block
InTransaction(c) == pc[c] \notin {"read", "check", "start", "done", "failed"}

\* ON CONFLICT (id_users) DO UPDATE SET ...: the row with the key gives way
InsertOrUpdate(c, R, drafts) ==
    /\ tx' = Upd(tx, c,
          [tx[c] EXCEPT ![R] =
              {row \in @ : \A d \in Range(drafts) : Key(R, d) # Key(R, row)}
                  \cup Range(drafts)])
    /\ db' = db

\* the statement runs in the transaction of c, and its rows are c's alone
\* until the transaction commits; outside a transaction it commits at once
InsertInto(c, R, drafts) ==
    IF InTransaction(c)
    THEN /\ tx' = Upd(tx, c,
               [tx[c] EXCEPT ![R] = @ \cup Inserted(c, R, drafts)])
         /\ db' = db
    ELSE /\ db' = [db EXCEPT ![R] = @ \cup Inserted(c, R, drafts)]
         /\ tx' = tx

(***************************************************************************)
(* Rows and drafts.  A draft is the dictionary of bind parameters of one   *)
(* row; the columns a statement does not list are NULL in the row.         *)
(***************************************************************************)
Columns(R) ==
    CASE R = "urls" -> {"id_urls", "url"}
      [] R = "users" ->
            {"id_users", "updated_at", "screen_name", "name", "id_urls"}
      [] R = "tweets" ->
            {"id_tweets", "id_users", "in_reply_to_user_id", "geo", "text"}
      [] R = "tweet_urls" -> {"id_tweets", "id_urls"}
      [] R = "tweet_mentions" -> {"id_tweets", "id_users"}
      [] R = "tweet_tags" -> {"id_tweets", "tag"}
      [] R = "tweet_media" -> {"id_tweets", "id_urls", "type"}

Null(col) ==
    IF col \in {"id_urls", "id_users", "id_tweets", "in_reply_to_user_id"}
    THEN NoId
    ELSE None

Row(R, draft) ==
    [col \in Columns(R) |->
        IF col \in DOMAIN draft THEN draft[col] ELSE Null(col)]

RowsOf(R, drafts) == [i \in 1..Len(drafts) |-> Row(R, drafts[i])]

UserDraft(t, user_id_urls) ==
    [id_users |-> t.user.id, updated_at |-> t.created_at,
     screen_name |-> t.user.screen_name, name |-> t.user.name,
     id_urls |-> user_id_urls]

\* the stub of the author of the tweet, not of the author replied to
ReplyUserDraftAuthor(t) ==
    [id_users |-> t.user.id, screen_name |-> t.in_reply_to_screen_name]

ReplyUserDraft(t) ==
    [id_users |-> t.in_reply_to_user_id,
     screen_name |-> t.in_reply_to_screen_name]

MentionUserDraft(m) ==
    [id_users |-> m.id, name |-> m.name, screen_name |-> m.screen_name]

TweetDraft(t, gs, gc) ==
    [id_tweets |-> t.id, id_users |-> t.user.id,
     in_reply_to_user_id |-> t.in_reply_to_user_id,
     geo_coords |-> gc, geo_str |-> gs, text |-> t.text]

TweetUrlDraft(t, id_urls) == [id_tweets |-> t.id, id_urls |-> id_urls]

TweetMentionDraft(t, m) == [id_tweets |-> t.id, id_users |-> m.id]

TweetTagDraft(t, tag) == [id_tweets |-> t.id, tag |-> tag]

TweetMediaDraft(t, medium, id_urls) ==
    [id_tweets |-> t.id, id_urls |-> id_urls, type |-> medium.type]

(***************************************************************************)
(* The geometry of a tweet.  The text of a coordinate pair is the token of *)
(* tweet.geo, the text of the closed rings of a bounding box is the token  *)
(* of tweet.place; "(" is the text geo_coords holds when the walk over the *)
(* bounding box stops before its first ring.                               *)
(***************************************************************************)
PointTexts == {t.geo : t \in Tweets} \ {None}
PolygonTexts == {t.place : t \in Tweets} \ {None, "nobbox"}

\* the try/except of both loaders: the locals gs, gc afterwards, and the
\* exception that leaves the block, if any
Geometry(t, gs, gc) ==
    IF t.geo # None
    THEN [geo_str |-> "POINT", geo_coords |-> t.geo, exc |-> None]
    ELSE IF t.place = None
    THEN [geo_str |-> gs, geo_coords |-> "(", exc |-> "TypeError"]
    ELSE IF t.place # "nobbox"
    THEN [geo_str |-> "MULTIPOLYGON", geo_coords |-> t.place, exc |-> None]
    ELSE IF t.user.geo_enabled
    THEN [geo_str |-> None, geo_coords |-> None, exc |-> None]
    ELSE [geo_str |-> gs, geo_coords |-> "(", exc |-> None]

\* ST_GeomFromText(:geo_str || '(' || :geo_coords || ')') parses
GeomParses(gs, gc) ==
    \/ gs = None
    \/ gc = None
    \/ gs = "POINT" /\ gc \in PointTexts
    \/ gs = "MULTIPOLYGON" /\ gc \in PolygonTexts

ST_GeomFromText(gs, gc) == IF gs = None \/ gc = None THEN None ELSE gc

TweetRow(draft) ==
    [id_tweets |-> draft.id_tweets, id_users |-> draft.id_users,
     in_reply_to_user_id |-> draft.in_reply_to_user_id,
     geo |-> ST_GeomFromText(draft.geo_str, draft.geo_coords),
     text |-> draft.text]

(***************************************************************************)
(* Transactions.                                                           *)
(***************************************************************************)
\* an exception that leaves the rows written so far in the store
RollbackKeeps(c, e) ==
    /\ db' = [R \in Relations |-> db[R] \cup tx[c][R]]
    /\ tx' = Upd(tx, c, EmptyDb)
    /\ pc' = Upd(pc, c, "failed")
    /\ err' = Upd(err, c, e)
    /\ seq' = seq

\* an exception that ends the loader's work with its transaction left open
RollbackLeavesOpen(c, e) ==
    /\ pc' = Upd(pc, c, "failed")
    /\ err' = Upd(err, c, e)
    /\ UNCHANGED <<db, tx, seq>>

\* an exception leaves the with connection.begin() block: the transaction
\* is rolled back and, nothing catching it, the loader ends
Rollback(c, e) ==
    /\ tx' = Upd(tx, c, EmptyDb)
    /\ pc' = Upd(pc, c, "failed")
    /\ err' = Upd(err, c, e)
    /\ UNCHANGED <<db, seq>>

\* the outermost with connection.begin() block ends normally
CommitTx(c) ==
    /\ db' = [R \in Relations |-> db[R] \cup tx[c][R]]
    /\ tx' = Upd(tx, c, EmptyDb)
    /\ base' = [d \in Conns |->
                  IF d = c THEN base[d]
                  ELSE [R \in Relations |-> base[d][R] \cup tx[c][R]]]

(***************************************************************************)
(* get_id_urls, in both loaders.                                           *)
(***************************************************************************)
\* an insert into urls that no row stops
UrlConflictNever(c, u) == FALSE

\* on conflict do nothing: a row of urls with this url is in the way
UrlConflict(c, u) == \E row \in View(c, "urls") : row.url = u

\* insert into urls (url) values (:url) on conflict do nothing
\* returning id_urls
GetIdUrlsInsert(c) ==
    /\ pc[c] = "giu_insert"
    /\ CanInsert(c, "urls", <<[url |-> url[c]]>>)
    /\ log' = Upd(log, c, IF kind[c] = "batch"
                          THEN Append(log[c], "urls") ELSE log[c])
    /\ IF UrlConflict(c, url[c])
       THEN /\ res' = Upd(res, c, NoId)
            /\ pc' = Upd(pc, c, "giu_select")
            /\ UNCHANGED <<db, tx, seq, rets>>
       ELSE /\ InsertInto(c, "urls", <<[id_urls |-> seq, url |-> url[c]]>>)
            /\ seq' = seq + 1
            /\ res' = Upd(res, c, seq)
            /\ rets' = rets \cup {<<url[c], seq>>}
            /\ pc' = Upd(pc, c, ret[c])
    /\ UNCHANGED <<kind, err, nread, url, ret, recVars, batches, batch_size,
                   input_tweets, ti, lists, wi, base, completed, loaded,
                   bulkVars>>

\* the TypeError of res[0] when the select found no row
NoResult == "TypeError: 'NoneType' object is not subscriptable"

\* select id_urls from urls where url=:url, then id_urls = res[0]
GetIdUrlsSelect(c) ==
    /\ pc[c] = "giu_select"
    /\ LET found == {row \in View(c, "urls") : row.url = url[c]} IN
       IF found = {}
       THEN /\ Rollback(c, NoResult)
            /\ UNCHANGED <<res, rets>>
       ELSE \E row \in found :
              /\ res' = Upd(res, c, row.id_urls)
              /\ rets' = rets \cup {<<url[c], row.id_urls>>}
              /\ pc' = Upd(pc, c, ret[c])
              /\ UNCHANGED <<storeVars, err>>
    /\ UNCHANGED <<kind, nread, url, ret, recVars, batchVars, base,
                   completed, loaded, bulkVars>>

\* the call: the caller continues at label when the id is in res[c]
Call(c, u, label) ==
    /\ url' = Upd(url, c, u)
    /\ ret' = Upd(ret, c, label)
    /\ pc' = Upd(pc, c, "giu_insert")

(***************************************************************************)
(* load_tweets.py: insert_tweet and the loop that calls it.                *)
(***************************************************************************)
Entities(t, sec) ==
    CASE sec = "urls" -> t.urls
      [] sec = "mentions" -> t.user_mentions
      [] sec = "tags" -> t.tags
      [] sec = "media" -> t.media

NextSec(sec) ==
    CASE sec = "urls" -> "mentions"
      [] sec = "mentions" -> "tags"
      [] sec = "tags" -> "media"
      [] sec = "media" -> "end"

\* the four for loops of insert_tweet after the tweets insert: where the
\* loader stands when it is at item i of the loop over sec
RECURSIVE SGoto(_, _, _)
SGoto(t, sec, i) ==
    IF sec = "end" THEN [pc |-> "s_commit", k |-> 0, url |-> None]
    ELSE IF i > Len(Entities(t, sec)) THEN SGoto(t, NextSec(sec), 1)
    ELSE CASE sec = "urls" ->
                [pc |-> "s_tweet_urls", k |-> i, url |-> t.urls[i]]
           [] sec = "mentions" ->
                [pc |-> "s_mention_user", k |-> i, url |-> None]
           [] sec = "tags" -> [pc |-> "s_tweet_tags", k |-> i, url |-> None]
           [] sec = "media" ->
                [pc |-> "s_tweet_media", k |-> i,
                 url |-> t.media[i].media_url]

\* continue at the place g; a place with a url is reached through
\* get_id_urls
Continue(c, g) ==
    /\ k' = Upd(k, c, g.k)
    /\ IF g.url # None
       THEN Call(c, g.url, g.pc)
       ELSE pc' = Upd(pc, c, g.pc) /\ UNCHANGED <<url, ret>>

\* what tweets shows c of the records recs: every one of them as it is
\* ("record"), a row with the id of every one ("id"), or not even that ("no")
LoadedAs(c, recs) ==
    IF \A t \in Range(recs) : \E row \in View(c, "tweets") :
          row.id_tweets = t.id /\ row.text = t.text
    THEN "record"
    ELSE IF \A t \in Range(recs) : \E row \in View(c, "tweets") :
          row.id_tweets = t.id
    THEN "id"
    ELSE "no"

\* for i,line in enumerate(f): tweet = json.loads(line)
ReadTweet(c) ==
    /\ kind[c] = "single"
    /\ pc[c] = "read"
    /\ nread < MaxTweets
    /\ \E t \in Tweets : tweet' = Upd(tweet, c, t)
    /\ nread' = nread + 1
    /\ loaded' = Upd(loaded, c, LoadedAs(c, <<tweet'[c]>>))
    /\ pc' = Upd(pc, c, "check")
    /\ UNCHANGED <<storeVars, kind, err, k, giuVars, geo_str, geo_coords,
                   batchVars, base, completed, rets, bulkVars>>

\* the last line of the last file has been read
EndOfInput(c) ==
    /\ kind[c] = "single"
    /\ pc[c] = "read"
    /\ pc' = Upd(pc, c, "done")
    /\ UNCHANGED <<storeVars, kind, err, nread, recVars, giuVars, batchVars,
                   histVars, bulkVars>>

\* insert_tweet up to the users insert: the tweet is skipped when its id is
\* in tweets; else the transaction begins and the user's url is interned
SkipOrBegin(c) ==
    /\ pc[c] = "check"
    /\ IF \E row \in View(c, "tweets") : row.id_tweets = tweet[c].id
       THEN /\ pc' = Upd(pc, c, "read")
            /\ UNCHANGED <<base, giuVars, geo_str, geo_coords>>
       ELSE /\ base' = Upd(base, c, db)
            /\ geo_str' = Upd(geo_str, c, Unbound)
            /\ geo_coords' = Upd(geo_coords, c, Unbound)
            /\ IF tweet[c].user.url = None
               THEN /\ res' = Upd(res, c, NoId)
                    /\ pc' = Upd(pc, c, "s_users")
                    /\ UNCHANGED <<url, ret>>
               ELSE /\ Call(c, tweet[c].user.url, "s_users")
                    /\ UNCHANGED res
    /\ UNCHANGED <<storeVars, kind, err, nread, tweet, k, batchVars,
                   completed, rets, loaded, bulkVars>>

\* a statement of insert_tweet that inserts the row of draft into R and goes
\* on at the place g
SingleInsert(c, at, R, draft, g) ==
    /\ pc[c] = at
    /\ CanInsert(c, R, <<Row(R, draft)>>)
    /\ InsertInto(c, R, <<Row(R, draft)>>)
    /\ Continue(c, g)
    /\ UNCHANGED <<seq, kind, err, nread, tweet, res, geo_str, geo_coords,
                   batchVars, histVars, bulkVars>>

Here(at) == [pc |-> at, k |-> 0, url |-> None]

\* INSERT INTO users (id_users, created_at, ...) ON CONFLICT (id_users) DO
\* NOTHING
InsertUser(c) ==
    SingleInsert(c, "s_users", "users", UserDraft(tweet[c], res[c]),
                 Here("s_geo"))

\* the geometry of the tweet; an exception the block does not catch ends
\* the transaction
SingleGeometry(c) ==
    /\ pc[c] = "s_geo"
    /\ LET g == Geometry(tweet[c], geo_str[c], geo_coords[c]) IN
         /\ geo_str' = Upd(geo_str, c, g.geo_str)
         /\ geo_coords' = Upd(geo_coords, c, g.geo_coords)
         /\ IF g.exc # None
            THEN Rollback(c, g.exc)
            ELSE /\ pc' = Upd(pc, c,
                        IF tweet[c].in_reply_to_user_id # NoId
                        THEN "s_reply_user" ELSE "s_tweets")
                 /\ UNCHANGED <<storeVars, err>>
    /\ UNCHANGED <<kind, nread, tweet, k, giuVars, batchVars, histVars,
                   bulkVars>>

\* INSERT INTO users (id_users, screen_name) of the author replied to
InsertReplyUser(c) ==
    SingleInsert(c, "s_reply_user", "users", ReplyUserDraft(tweet[c]),
                 Here("s_tweets"))

\* INSERT INTO tweets: reading an unassigned geo_str raises
\* UnboundLocalError, a text that is no geometry fails the statement
InsertTweet(c) ==
    /\ pc[c] = "s_tweets"
    /\ LET draft == TweetDraft(tweet[c], geo_str[c], geo_coords[c]) IN
       IF geo_str[c] = Unbound \/ geo_coords[c] = Unbound
       THEN /\ Rollback(c, "UnboundLocalError")
            /\ UNCHANGED <<k, url, ret>>
       ELSE IF ~GeomParses(geo_str[c], geo_coords[c])
       THEN /\ Rollback(c, "InternalError")
            /\ UNCHANGED <<k, url, ret>>
       ELSE /\ CanInsert(c, "tweets", <<TweetRow(draft)>>)
            /\ InsertInto(c, "tweets", <<TweetRow(draft)>>)
            /\ Continue(c, SGoto(tweet[c], "urls", 1))
            /\ UNCHANGED <<seq, err>>
    /\ UNCHANGED <<kind, nread, tweet, res, geo_str, geo_coords, batchVars,
                   histVars, bulkVars>>

\* INSERT INTO tweet_urls, with the id get_id_urls returned
InsertTweetUrl(c) ==
    SingleInsert(c, "s_tweet_urls", "tweet_urls",
                 TweetUrlDraft(tweet[c], res[c]),
                 SGoto(tweet[c], "urls", k[c] + 1))

\* INSERT INTO users (id_users, name, screen_name) of a mentioned author
InsertMentionUser(c) ==
    SingleInsert(c, "s_mention_user", "users",
                 MentionUserDraft(tweet[c].user_mentions[k[c]]),
                 [pc |-> "s_tweet_mentions", k |-> k[c], url |-> None])

\* INSERT INTO tweet_mentions
InsertTweetMention(c) ==
    SingleInsert(c, "s_tweet_mentions", "tweet_mentions",
                 TweetMentionDraft(tweet[c], tweet[c].user_mentions[k[c]]),
                 SGoto(tweet[c], "mentions", k[c] + 1))

\* INSERT INTO tweet_tags
InsertTweetTag(c) ==
    SingleInsert(c, "s_tweet_tags", "tweet_tags",
                 TweetTagDraft(tweet[c], tweet[c].tags[k[c]]),
                 SGoto(tweet[c], "tags", k[c] + 1))

\* INSERT INTO tweet_media, with the id get_id_urls returned
InsertTweetMedia(c) ==
    SingleInsert(c, "s_tweet_media", "tweet_media",
                 TweetMediaDraft(tweet[c], tweet[c].media[k[c]], res[c]),
                 SGoto(tweet[c], "media", k[c] + 1))

\* the with connection.begin() block of insert_tweet ends: COMMIT
SingleCommit(c) ==
    /\ pc[c] = "s_commit"
    /\ CommitTx(c)
    /\ pc' = Upd(pc, c, "read")
    /\ UNCHANGED <<seq, kind, err, nread, recVars, giuVars, batchVars,
                   completed, rets, loaded, bulkVars>>

(***************************************************************************)
(* load_tweets_batch.py: batch, insert_tweets, _insert_tweets and the main *)
(* block.                                                                  *)
(***************************************************************************)
Min(a, b) == IF a < b THEN a ELSE b

\* the batches of range(0, l - n + 1, n): the full ones only
BatchFullOnly(iterable, n) ==
    [i \in 1..(Len(iterable) \div n) |->
        SubSeq(iterable, (i - 1) * n + 1, (i - 1) * n + n)]

\* list(batch(iterable, n)): iterable[ndx:min(ndx + n, l)] for ndx in
\* range(0, l, n)
Batch(iterable, n) ==
    LET l == Len(iterable) IN
    [i \in 1..((l + n - 1) \div n) |->
        SubSeq(iterable, (i - 1) * n + 1, Min((i - 1) * n + n, l))]

EmptyLists ==
    [users |-> <<>>, tweets |-> <<>>, users_unhydrated_from_tweets |-> <<>>,
     users_unhydrated_from_mentions |-> <<>>, tweet_mentions |-> <<>>,
     tweet_tags |-> <<>>, tweet_media |-> <<>>, tweet_urls |-> <<>>]

\* the order with the mentions written before the authors they mention
WriteOrderMentionsFirst ==
    <<[table |-> "users", list |-> "users"],
      [table |-> "users", list |-> "users_unhydrated_from_tweets"],
      [table |-> "tweet_mentions", list |-> "tweet_mentions"],
      [table |-> "users", list |-> "users_unhydrated_from_mentions"],
      [table |-> "tweet_tags", list |-> "tweet_tags"],
      [table |-> "tweet_media", list |-> "tweet_media"],
      [table |-> "tweet_urls", list |-> "tweet_urls"]>>

\* the bulk_insert calls of STEP 2, in their order
WriteOrder ==
    <<[table |-> "users", list |-> "users"],
      [table |-> "users", list |-> "users_unhydrated_from_tweets"],
      [table |-> "users", list |-> "users_unhydrated_from_mentions"],
      [table |-> "tweet_mentions", list |-> "tweet_mentions"],
      [table |-> "tweet_tags", list |-> "tweet_tags"],
      [table |-> "tweet_media", list |-> "tweet_media"],
      [table |-> "tweet_urls", list |-> "tweet_urls"]>>

\* the loops of STEP 1 that call get_id_urls: where the loader stands when
\* it is at item i of the loop over sec
BGoto(t, sec, i) ==
    IF sec = "urls"
    THEN IF i <= Len(t.urls)
         THEN [pc |-> "n_tweet_urls", k |-> i, url |-> t.urls[i]]
         ELSE [pc |-> "n_entities", k |-> 0, url |-> None]
    ELSE IF i <= Len(t.media)
         THEN [pc |-> "n_tweet_media", k |-> i, url |-> t.media[i].media_url]
         ELSE [pc |-> "n_next", k |-> 0, url |-> None]

\* the head of the loop body of STEP 1: the user's url is interned
StartRecord(c, t) ==
    /\ tweet' = Upd(tweet, c, t)
    /\ IF t.user.url = None
       THEN /\ res' = Upd(res, c, NoId)
            /\ pc' = Upd(pc, c, "n_post")
            /\ UNCHANGED <<url, ret>>
       ELSE /\ Call(c, t.user.url, "n_post")
            /\ UNCHANGED res

\* the main block: the transaction around the whole run begins and the
\* records of the file are read
BeginRun(c) ==
    /\ kind[c] = "batch"
    /\ pc[c] = "start"
    /\ \E n \in 0..(MaxTweets - nread) : \E f \in [1..n -> Tweets] :
         /\ batches' = Upd(batches, c, Batch(f, batch_size[c]))
         /\ nread' = nread + n
    /\ base' = Upd(base, c, db)
    /\ pc' = Upd(pc, c, "batches")
    /\ UNCHANGED <<storeVars, kind, err, recVars, giuVars, batch_size,
                   input_tweets, ti, lists, wi, log, completed, rets,
                   loaded, bulkVars>>

\* insert_tweets takes the next batch and _insert_tweets starts on it
NextBatch(c) ==
    /\ pc[c] = "batches"
    /\ batches[c] # <<>>
    /\ input_tweets' = Upd(input_tweets, c, Head(batches[c]))
    /\ batches' = Upd(batches, c, Tail(batches[c]))
    /\ lists' = Upd(lists, c, EmptyLists)
    /\ log' = Upd(log, c, <<>>)
    /\ ti' = Upd(ti, c, 1)
    /\ geo_str' = Upd(geo_str, c, Unbound)
    /\ geo_coords' = Upd(geo_coords, c, Unbound)
    /\ base' = Upd(base, c, db)
    /\ loaded' = Upd(loaded, c, LoadedAs(c, Head(batches[c])))
    /\ StartRecord(c, Head(batches[c])[1])
    /\ UNCHANGED <<storeVars, kind, err, nread, k, batch_size, wi, completed,
                   rets, bulkVars>>

\* STEP 1 from users.append to tweets.append
NormalizePost(c) ==
    /\ pc[c] = "n_post"
    /\ LET t == tweet[c]
           g == Geometry(t, geo_str[c], geo_coords[c])
           stubs == IF t.in_reply_to_user_id # NoId
                    THEN <<ReplyUserDraft(t)>> ELSE <<>>
       IN
         /\ geo_str' = Upd(geo_str, c, g.geo_str)
         /\ geo_coords' = Upd(geo_coords, c, g.geo_coords)
         /\ IF g.exc # None
            THEN /\ Rollback(c, g.exc)
                 /\ UNCHANGED <<lists, k, url, ret>>
            ELSE IF g.geo_str = Unbound \/ g.geo_coords = Unbound
            THEN /\ Rollback(c, "UnboundLocalError")
                 /\ UNCHANGED <<lists, k, url, ret>>
            ELSE /\ lists' = Upd(lists, c,
                      [lists[c] EXCEPT
                         !.users = Append(@, UserDraft(t, res[c])),
                         !.users_unhydrated_from_tweets = @ \o stubs,
                         !.tweets = Append(@,
                              TweetDraft(t, g.geo_str, g.geo_coords))])
                 /\ Continue(c, BGoto(t, "urls", 1))
                 /\ UNCHANGED <<storeVars, err>>
    /\ UNCHANGED <<kind, nread, tweet, res, batches, batch_size,
                   input_tweets, ti, wi, log, histVars, bulkVars>>

\* tweet_urls.append, with the id get_id_urls returned
AppendTweetUrl(c) ==
    /\ pc[c] = "n_tweet_urls"
    /\ lists' = Upd(lists, c,
          [lists[c] EXCEPT
             !.tweet_urls = Append(@, TweetUrlDraft(tweet[c], res[c]))])
    /\ Continue(c, BGoto(tweet[c], "urls", k[c] + 1))
    /\ UNCHANGED <<storeVars, kind, err, nread, tweet, res, geo_str,
                   geo_coords, batches, batch_size, input_tweets, ti, wi, log,
                   histVars, bulkVars>>

\* the loops over the mentions and the tags
NormalizeEntities(c) ==
    /\ pc[c] = "n_entities"
    /\ LET t == tweet[c]
           ms == t.user_mentions
       IN lists' = Upd(lists, c,
            [lists[c] EXCEPT
               !.users_unhydrated_from_mentions =
                   @ \o [i \in 1..Len(ms) |-> MentionUserDraft(ms[i])],
               !.tweet_mentions =
                   @ \o [i \in 1..Len(ms) |-> TweetMentionDraft(t, ms[i])],
               !.tweet_tags =
                   @ \o [i \in 1..Len(t.tags) |->
                           TweetTagDraft(t, t.tags[i])]])
    /\ Continue(c, BGoto(tweet[c], "media", 1))
    /\ UNCHANGED <<storeVars, kind, err, nread, tweet, res, geo_str,
                   geo_coords, batches, batch_size, input_tweets, ti, wi, log,
                   histVars, bulkVars>>

\* tweet_media.append, with the id get_id_urls returned
AppendTweetMedia(c) ==
    /\ pc[c] = "n_tweet_media"
    /\ lists' = Upd(lists, c,
          [lists[c] EXCEPT
             !.tweet_media =
                 Append(@, TweetMediaDraft(tweet[c], tweet[c].media[k[c]],
                                           res[c]))])
    /\ Continue(c, BGoto(tweet[c], "media", k[c] + 1))
    /\ UNCHANGED <<storeVars, kind, err, nread, tweet, res, geo_str,
                   geo_coords, batches, batch_size, input_tweets, ti, wi, log,
                   histVars, bulkVars>>

\* for tweet in input_tweets: the next record, or STEP 2 after the last
NextRecord(c) ==
    /\ pc[c] = "n_next"
    /\ IF ti[c] < Len(input_tweets[c])
       THEN /\ ti' = Upd(ti, c, ti[c] + 1)
            /\ StartRecord(c, input_tweets[c][ti[c] + 1])
            /\ UNCHANGED wi
       ELSE /\ wi' = Upd(wi, c, 1)
            /\ pc' = Upd(pc, c, "write")
            /\ UNCHANGED <<tweet, ti, giuVars>>
    /\ UNCHANGED <<storeVars, kind, err, nread, k, geo_str, geo_coords,
                   batches, batch_size, input_tweets, lists, log, histVars,
                   bulkVars>>

\* the check of _bulk_insert_sql that every row has the keys of the first
SameKeys(drafts) == \A i \in 1..Len(drafts) : DOMAIN drafts[i] = DOMAIN drafts[1]

\* the next bulk_insert of STEP 2
BulkInsert(c) ==
    /\ pc[c] = "write"
    /\ LET w == WriteOrder[wi[c]]
           drafts == lists[c][w.list]
           after == IF wi[c] < Len(WriteOrder) THEN "write" ELSE "w_tweets"
       IN
         IF Len(drafts) = 0
         THEN /\ pc' = Upd(pc, c, after)
              /\ UNCHANGED <<storeVars, err, log>>
         ELSE IF ~SameKeys(drafts)
         THEN /\ Rollback(c, "ValueError")
              /\ UNCHANGED log
         ELSE /\ CanInsert(c, w.table, RowsOf(w.table, drafts))
              /\ InsertInto(c, w.table, RowsOf(w.table, drafts))
              /\ log' = Upd(log, c, Append(log[c], w.table))
              /\ pc' = Upd(pc, c, after)
              /\ UNCHANGED <<seq, err>>
    /\ wi' = Upd(wi, c, wi[c] + 1)
    /\ UNCHANGED <<kind, nread, recVars, giuVars, batches, batch_size,
                   input_tweets, ti, lists, histVars, bulkVars>>

\* the INSERT INTO tweets that ends STEP 2, and the end of its with block,
\* which leaves the commit to the block of the run
InsertTweets(c) ==
    /\ pc[c] = "w_tweets"
    /\ LET drafts == lists[c].tweets
           new == [i \in 1..Len(drafts) |-> TweetRow(drafts[i])]
       IN
         IF \E i \in 1..Len(drafts) :
               ~GeomParses(drafts[i].geo_str, drafts[i].geo_coords)
         THEN /\ Rollback(c, "InternalError")
              /\ UNCHANGED <<log, completed>>
         ELSE /\ CanInsert(c, "tweets", new)
              /\ InsertInto(c, "tweets", new)
              /\ log' = Upd(log, c, Append(log[c], "tweets"))
              /\ completed' = Upd(completed, c, tx'[c])
              /\ pc' = Upd(pc, c, "batches")
              /\ UNCHANGED <<seq, err>>
    /\ UNCHANGED <<kind, nread, recVars, giuVars, batches, batch_size,
                   input_tweets, ti, lists, wi, base, rets, loaded,
                   bulkVars>>

\* the with block of the run ends after the last batch: COMMIT
RunCommit(c) ==
    /\ pc[c] = "batches"
    /\ batches[c] = <<>>
    /\ CommitTx(c)
    /\ pc' = Upd(pc, c, "done")
    /\ UNCHANGED <<seq, kind, err, nread, recVars, giuVars, batchVars,
                   completed, rets, loaded, bulkVars>>

(***************************************************************************)
(* The store fails a statement (the connection drops, a deadlock is        *)
(* broken, ...): connection.execute raises.                                *)
(***************************************************************************)
StatementPcs ==
    {"giu_insert", "giu_select", "s_users", "s_reply_user", "s_tweets",
     "s_tweet_urls", "s_mention_user", "s_tweet_mentions", "s_tweet_tags",
     "s_tweet_media", "s_commit", "w_tweets"}

StatementFails(c) ==
    /\ \/ pc[c] \in StatementPcs
       \/ pc[c] = "write" /\ Len(lists[c][WriteOrder[wi[c]].list]) > 0
    /\ Rollback(c, "OperationalError")
    /\ UNCHANGED <<kind, nread, recVars, giuVars, batchVars, histVars,
                   bulkVars>>

(***************************************************************************)
(* The loaders on one store.                                               *)
(***************************************************************************)
InitLoaders ==
    /\ db = EmptyDb
    /\ tx = [c \in Conns |-> EmptyDb]
    /\ seq = 1
    /\ kind \in [Conns -> {"single", "batch"}]
    /\ pc = [c \in Conns |-> IF kind[c] = "single" THEN "read" ELSE "start"]
    /\ err = [c \in Conns |-> None]
    /\ nread = 0
    /\ tweet = [c \in Conns |-> T1]
    /\ k = [c \in Conns |-> 0]
    /\ url = [c \in Conns |-> None]
    /\ res = [c \in Conns |-> NoId]
    /\ ret = [c \in Conns |-> None]
    /\ geo_str = [c \in Conns |-> Unbound]
    /\ geo_coords = [c \in Conns |-> Unbound]
    /\ batches = [c \in Conns |-> <<>>]
    /\ batch_size \in [Conns -> 1..MaxTweets]
    /\ \A c \in Conns : kind[c] = "single" => batch_size[c] = 1
    /\ input_tweets = [c \in Conns |-> <<>>]
    /\ ti = [c \in Conns |-> 0]
    /\ lists = [c \in Conns |-> EmptyLists]
    /\ wi = [c \in Conns |-> 0]
    /\ log = [c \in Conns |-> <<>>]
    /\ base = [c \in Conns |-> EmptyDb]
    /\ completed = [c \in Conns |-> EmptyDb]
    /\ rets = {}
    /\ loaded = [c \in Conns |-> "no"]

Init ==
    /\ InitLoaders
    /\ rows = <<>>
    /\ out = None
    /\ bpc = "idle"
    /\ args = NoCall

Next ==
    \E c \in Conns :
        \/ ReadTweet(c)
        \/ EndOfInput(c)
        \/ SkipOrBegin(c)
        \/ GetIdUrlsInsert(c)
        \/ GetIdUrlsSelect(c)
        \/ InsertUser(c)
        \/ SingleGeometry(c)
        \/ InsertReplyUser(c)
        \/ InsertTweet(c)
        \/ InsertTweetUrl(c)
        \/ InsertMentionUser(c)
        \/ InsertTweetMention(c)
        \/ InsertTweetTag(c)
        \/ InsertTweetMedia(c)
        \/ SingleCommit(c)
        \/ BeginRun(c)
        \/ NextBatch(c)
        \/ NormalizePost(c)
        \/ AppendTweetUrl(c)
        \/ NormalizeEntities(c)
        \/ AppendTweetMedia(c)
        \/ NextRecord(c)
        \/ BulkInsert(c)
        \/ InsertTweets(c)
        \/ RunCommit(c)
        \/ StatementFails(c)

Spec == Init /\ [][Next]_vars

(***************************************************************************)
(* The loaders as processes that keep running, on a store that breaks      *)
(* deadlocks.  An insert that waits for a row of another transaction is a  *)
(* step of its loader that is not enabled.  The store finds a set of       *)
(* transactions that wait on one another, with no row held outside the     *)
(* set, and fails the statement of one of them (deadlock detected).        *)
(***************************************************************************)
\* a step of loader c itself
Step(c) ==
    \/ ReadTweet(c)
    \/ EndOfInput(c)
    \/ SkipOrBegin(c)
    \/ GetIdUrlsInsert(c)
    \/ GetIdUrlsSelect(c)
    \/ InsertUser(c)
    \/ SingleGeometry(c)
    \/ InsertReplyUser(c)
    \/ InsertTweet(c)
    \/ InsertTweetUrl(c)
    \/ InsertMentionUser(c)
    \/ InsertTweetMention(c)
    \/ InsertTweetTag(c)
    \/ InsertTweetMedia(c)
    \/ SingleCommit(c)
    \/ BeginRun(c)
    \/ NextBatch(c)
    \/ NormalizePost(c)
    \/ AppendTweetUrl(c)
    \/ NormalizeEntities(c)
    \/ AppendTweetMedia(c)
    \/ NextRecord(c)
    \/ BulkInsert(c)
    \/ InsertTweets(c)
    \/ RunCommit(c)

\* where a loader is at an INSERT
InsertPcs ==
    {"giu_insert", "s_users", "s_reply_user", "s_tweets", "s_tweet_urls",
     "s_mention_user", "s_tweet_mentions", "s_tweet_tags", "s_tweet_media",
     "write", "w_tweets"}

\* the INSERT of c waits for a row of another transaction
Waits(c) == pc[c] \in InsertPcs /\ ~ENABLED Step(c)

\* the statement of c fails with "deadlock detected"
DeadlockDetected(c) ==
    /\ \E D \in SUBSET Conns :
          /\ c \in D
          /\ \A d \in D : Waits(d)
          /\ \A e \in Conns \ D : tx[e] = EmptyDb
    /\ Rollback(c, "DeadlockDetected")
    /\ UNCHANGED <<kind, nread, recVars, giuVars, batchVars, histVars,
                   bulkVars>>

NextLive == Next \/ \E c \in Conns : DeadlockDetected(c)

\* every loader process is scheduled again and again, and the store's
\* deadlock detector runs
Fairness ==
    \A c \in Conns : WF_vars(Step(c)) /\ WF_vars(DeadlockDetected(c))

SpecLive == Init /\ [][NextLive]_vars /\ Fairness

(***************************************************************************)
(* _bulk_insert_sql.  A text is the sequence of its characters; a row is   *)
(* a dictionary, the sequence of its items in insertion order.             *)
(***************************************************************************)
Digits == <<"0", "1", "2", "3", "4", "5", "6", "7", "8", "9">>

\* str(i) of an integer i >= 0
RECURSIVE Str(_)
Str(i) ==
    IF i < 10 THEN <<Digits[i + 1]>>
    ELSE Str(i \div 10) \o <<Digits[(i % 10) + 1]>>

\* row.keys()
Keys(row) == {row[j].key : j \in 1..Len(row)}

\* the orders in which iterating over a set of keys may yield them
Orders(ks) ==
    {o \in [1..Cardinality(ks) -> ks] :
        \A i, j \in 1..Cardinality(ks) : i # j => o[i] # o[j]}

\* key+str(i) and f':{key}{i}', for the row with the index i
BindName(key, i) == key \o Str(i)

\* { key+str(i):value for i,row in enumerate(rows)
\*                      for key,value in row.items() }: of the items that get
\* one name the last one stays
Binds(rs) ==
    LET real == UNION {{<<i, j>> : j \in 1..Len(rs[i])} : i \in 1..Len(rs)} IN
    LET name(p) == BindName(rs[p[1]][p[2]].key, p[1] - 1) IN
    [n \in {name(p) : p \in real} |->
        LET same == {p \in real : name(p) = n}
            last == CHOOSE p \in same : \A q \in same :
                        q[1] < p[1] \/ (q[1] = p[1] /\ q[2] <= p[2])
        IN rs[last[1]][last[2]].value]

\* the statement, with its columns in the order cols
Sql(table, cols, rs) ==
    [table |-> table, columns |-> cols,
     values |-> [i \in 1..Len(rs) |->
                   [j \in 1..Len(cols) |-> BindName(cols[j], i - 1)]]]

EmptyError == "Must be at least one dictionary in the rows variable"
ShapeError == "All dictionaries must contain the same keys"

\* the rows with the keys of ks, n of them, the row at odd (if any) with
\* the keys of ks2; the value of a row for a key names both
MkRows(ks, n, odd, ks2) ==
    [i \in 1..n |->
        LET kl == IF i = odd THEN ks2 ELSE ks IN
        [j \in 1..Len(kl) |-> [key |-> kl[j], value |-> <<i - 1, kl[j]>>]]]

KeyLists ==
    {<< <<"a">> >>, << <<"b">> >>, << <<"a">>, <<"a", "1">> >>,
     << <<"a", "1">>, <<"a">> >>, << <<"a">>, <<"b">> >>,
     << <<"b">>, <<"a">> >>}

BulkInputs ==
    {MkRows(ks, n, 0, ks) : ks \in KeyLists, n \in 0..MaxRows}
        \cup {MkRows(ks, n, n, ks2) :
                 ks \in KeyLists, ks2 \in KeyLists, n \in 1..MaxRows}

\* a check that lets a row pass when it lacks keys of the first row
DifferentKeysExtraOnly(rs) ==
    \E i \in 1..Len(rs) : ~(Keys(rs[i]) \subseteq Keys(rs[1]))

\* for row in rows: set(row.keys()) != keys, for a row
DifferentKeys(rs) == \E i \in 1..Len(rs) : Keys(rs[i]) # Keys(rs[1])

\* _bulk_insert_sql('test', rows)
BulkInsertSql ==
    /\ bpc = "call"
    /\ bpc' = "done"
    /\ IF rows = <<>>
       THEN out' = [error |-> EmptyError, sql |-> None, binds |-> None]
       ELSE IF DifferentKeys(rows)
       THEN out' = [error |-> ShapeError, sql |-> None, binds |-> None]
       ELSE \E cols \in Orders(Keys(rows[1])) :
              out' = [error |-> None, sql |-> Sql("test", cols, rows),
                      binds |-> Binds(rows)]
    /\ UNCHANGED <<storeVars, kind, pc, err, nread, recVars, giuVars,
                   batchVars, histVars, rows, args>>

InitBulk ==
    /\ InitLoaders
    /\ kind = [c \in Conns |-> "single"]
    /\ rows \in BulkInputs
    /\ out = None
    /\ bpc = "call"
    /\ args = NoCall

NextBulk == BulkInsertSql

SpecBulk == InitBulk /\ [][NextBulk]_vars

(***************************************************************************)
(* batch and remove_nulls, called on their own.  A text is the sequence of *)
(* its characters; a value that may be None is a record that says so.      *)
(***************************************************************************)
Items == {"x", "y"}

\* the lists of at most n members of S
SeqsUpTo(S, n) == UNION {[1..m -> S] : m \in 0..n}

BatchInputs ==
    {[f |-> "batch", iterable |-> it, n |-> n] :
        it \in SeqsUpTo(Items, MaxLen), n \in 1..(MaxLen + 1)}

\* batch(iterable, n)
CallBatch ==
    /\ bpc = "call"
    /\ args.f = "batch"
    /\ out' = Batch(args.iterable, args.n)
    /\ bpc' = "done"
    /\ UNCHANGED <<storeVars, kind, pc, err, nread, recVars, giuVars,
                   batchVars, histVars, rows, args>>

\* the null character, and the characters of its escaped version
Nul == "NUL"
Escaped == <<"\\", "x", "0", "0">>
Chars == {Nul, "\\", "x", "0"}

NoneText == [none |-> TRUE, text |-> <<>>]
Text(chars) == [none |-> FALSE, text |-> chars]

\* s.replace('\x00', '\\x00') with a count of 1: the first occurrence only
RECURSIVE ReplaceFirst(_)
ReplaceFirst(chars) ==
    IF chars = <<>> THEN <<>>
    ELSE IF Head(chars) = Nul THEN Escaped \o Tail(chars)
    ELSE <<Head(chars)>> \o ReplaceFirst(Tail(chars))

\* s.replace('\x00', '\\x00')
RECURSIVE Replace(_)
Replace(chars) ==
    IF chars = <<>> THEN <<>>
    ELSE IF Head(chars) = Nul THEN Escaped \o Replace(Tail(chars))
    ELSE <<Head(chars)>> \o Replace(Tail(chars))

\* remove_nulls(s)
RemoveNulls(s) == IF s.none THEN NoneText ELSE Text(Replace(s.text))

TextInputs ==
    {[f |-> "remove_nulls", s |-> s] :
        s \in {NoneText} \cup {Text(t) : t \in SeqsUpTo(Chars, MaxLen)}}

CallRemoveNulls ==
    /\ bpc = "call"
    /\ args.f = "remove_nulls"
    /\ out' = RemoveNulls(args.s)
    /\ bpc' = "done"
    /\ UNCHANGED <<storeVars, kind, pc, err, nread, recVars, giuVars,
                   batchVars, histVars, rows, args>>

InitHelpers ==
    /\ InitLoaders
    /\ kind = [c \in Conns |-> "single"]
    /\ rows = <<>>
    /\ out = None
    /\ bpc = "call"
    /\ args \in BatchInputs \cup TextInputs

NextHelpers == CallBatch \/ CallRemoveNulls

SpecHelpers == InitHelpers /\ [][NextHelpers]_vars

(***************************************************************************)
(* The properties.                                                         *)
(***************************************************************************)
Before(c, A, B) ==
    \A i, j \in 1..Len(log[c]) :
        (log[c][i] \in A /\ log[c][j] \in B) => i < j

\* C1 as stated: in every batch the urls and users inserts come before the
\* tweets insert, and the tweets insert before every insert into
\* tweet_mentions, tweet_tags, tweet_media and tweet_urls.
C1_ForeignKeyOrder ==
    \A c \in Conns :
        /\ Before(c, {"urls", "users"}, {"tweets"})
        /\ Before(c, {"tweets"}, Dependents)

\* C1 amended: in every batch the urls and users inserts come before the
\* tweets insert and before every insert into the dependent relations, and
\* the tweets insert comes after every insert into the dependent relations.
C1_WriteOrder ==
    \A c \in Conns :
        /\ Before(c, {"urls", "users"}, {"tweets"} \cup Dependents)
        /\ Before(c, Dependents, {"tweets"})

\* a batch has written authors, mentions, media and, last, its tweets
C1_Witness ==
    \E c \in Conns :
        /\ {"urls", "users", "tweet_mentions", "tweet_media"}
               \subseteq Range(log[c])
        /\ log[c][Len(log[c])] = "tweets"

\* C2: when a statement of a batch (of a tweet, in load_tweets.py) fails,
\* the store holds the rows it held when the batch began, the rows other
\* loaders committed meanwhile apart; nothing of the batch is left
\* uncommitted either, and the loader ends with the exception.
C2_RolledBack ==
    \A c \in Conns :
        pc[c] = "failed" =>
            /\ db = base[c]
            /\ tx[c] = EmptyDb
            /\ err[c] # None

\* a statement failed after the transaction had interned a url, and no row
\* of urls is left
C2_Witness ==
    \E c \in Conns :
        /\ pc[c] = "failed"
        /\ err[c] = "OperationalError"
        /\ seq > 1
        /\ AllRows("urls") = {}

\* a step in which connection c adds a row to tweets, users or a dependent
\* relation
Adds(c) ==
    \E R \in Relations \ {"urls"} : ~(tx'[c][R] \subseteq View(c, R))

\* C3 as stated: once the id of every record being processed was in tweets
\* when the processing began, whatever the other fields of the records,
\* the processing adds no row to tweets, users or a dependent relation.
C3_LoadedIdNoOp ==
    [][\A c \in Conns : loaded[c] \in {"id", "record"} => ~Adds(c)]_vars

\* C3 amended: once every record being processed was in tweets when the
\* processing began, with its id and its own fields, the processing adds no
\* row to tweets, users or a dependent relation.
C3_LoadedRecordNoOp ==
    [][\A c \in Conns : loaded[c] = "record" => ~Adds(c)]_vars

\* a batch of records loaded before has gone through all its inserts
C3_Witness ==
    \E c \in Conns :
        /\ loaded[c] = "record"
        /\ pc[c] = "batches"
        /\ {"urls", "users", "tweets"} \subseteq Range(log[c])

\* C4: a row of users, once it exists, keeps every attribute whatever is
\* inserted for its id later.
C4_FirstWriteWins ==
    [][\A r \in AllRows("users") : \A r2 \in AllRows("users")' :
          r2.id_users = r.id_users => r2 = r]_vars

\* a batch has inserted the stub of an author replied to whose row, with
\* another screen name, was there first
C4_Witness ==
    \E c \in Conns :
        /\ pc[c] = "write"
        /\ wi[c] > 2
        /\ \E d \in Range(lists[c].users_unhydrated_from_tweets) :
             \E r \in View(c, "users") :
                r.id_users = d.id_users /\ r.screen_name # d.screen_name

\* C5: whatever the interleaving of the get_id_urls calls of the loaders,
\* urls holds at most one row for a url, and no two rows share an id.
C5_UniqueUrls ==
    \A r1, r2 \in AllRows("urls") :
        (r1.url = r2.url \/ r1.id_urls = r2.id_urls) => r1 = r2

\* a get_id_urls call waits for the transaction that inserted its url
C5_Witness ==
    \E c \in Conns :
        /\ pc[c] = "giu_insert"
        /\ Locked(c, "urls", {url[c]})

\* a returned id whose row has not been rolled back
Live(p) == \E r \in AllRows("urls") : r.id_urls = p[2]

\* the loaders have raised no exception of their own: the only failures
\* are statements the store failed
OnlyStoreFailures == \A c \in Conns : err[c] \in {None, "OperationalError"}

\* C6 as stated, of the runs in which only the store fails statements: no
\* get_id_urls call ends without a result, and all calls for a url return
\* one id.
C6_SameIdAlways ==
    OnlyStoreFailures =>
        /\ \A c \in Conns : err[c] # NoResult
        /\ \A p, q \in rets : p[1] = q[1] => p[2] = q[2]

\* C6 amended: no get_id_urls call ends without a result, and all calls for
\* a url return one id as long as the rows they returned have not been
\* rolled back.
C6_SameIdWhileLive ==
    /\ \A c \in Conns : err[c] # NoResult
    /\ \A p, q \in rets : (p[1] = q[1] /\ Live(p) /\ Live(q)) => p[2] = q[2]

\* a call has returned the id of a row that another transaction committed
C6_Witness ==
    \E c \in Conns :
        /\ pc[c] \in {"s_users", "s_tweet_urls", "s_tweet_media", "n_post",
                      "n_tweet_urls", "n_tweet_media"}
        /\ res[c] # NoId
        /\ <<url[c], res[c]>> \in rets
        /\ [id_urls |-> res[c], url |-> url[c]] \in db["urls"]
        /\ tx[c]["urls"] = {}

HasUser(id) == \E u \in db["users"] : u.id_users = id
HasUrl(id) == \E u \in db["urls"] : u.id_urls = id

\* C7: in the committed store every author, reply and mention reference is
\* the id of a users row, and every url reference the id of a urls row.
C7_ReferentialIntegrity ==
    /\ \A r \in db["tweets"] :
          /\ HasUser(r.id_users)
          /\ r.in_reply_to_user_id # NoId => HasUser(r.in_reply_to_user_id)
    /\ \A r \in db["tweet_mentions"] : HasUser(r.id_users)
    /\ \A r \in db["users"] : r.id_urls # NoId => HasUrl(r.id_urls)
    /\ \A r \in db["tweet_urls"] \cup db["tweet_media"] : HasUrl(r.id_urls)

\* a committed reply to, and mention of, authors that have stub rows only
C7_Witness ==
    \E r \in db["tweets"] : \E u \in db["users"] : \E m \in db["tweet_mentions"] :
        /\ u.id_users = r.in_reply_to_user_id
        /\ u.updated_at = None
        /\ m.id_tweets = r.id_tweets
        /\ db["tweet_media"] # {}

\* the record a row of tweets was inserted for
RecordOf(row) ==
    CHOOSE t \in Tweets : t.id = row.id_tweets /\ t.text = row.text

\* C8: in the committed store a row of tweets comes with the users row of
\* its author and with the tweet_urls, tweet_mentions, tweet_tags and
\* tweet_media rows of the record it was inserted for.
C8_NoPartialRecord ==
    \A r \in db["tweets"] :
        LET t == RecordOf(r) IN
        /\ HasUser(t.user.id)
        /\ \A i \in 1..Len(t.urls) : \E u \in db["urls"] :
              /\ u.url = t.urls[i]
              /\ TweetUrlDraft(t, u.id_urls) \in db["tweet_urls"]
        /\ \A i \in 1..Len(t.user_mentions) :
              TweetMentionDraft(t, t.user_mentions[i]) \in db["tweet_mentions"]
        /\ \A i \in 1..Len(t.tags) :
              TweetTagDraft(t, t.tags[i]) \in db["tweet_tags"]
        /\ \A i \in 1..Len(t.media) : \E u \in db["urls"] :
              /\ u.url = t.media[i].media_url
              /\ TweetMediaDraft(t, t.media[i], u.id_urls) \in db["tweet_media"]

\* two records with urls, tags, mentions and media are committed
C8_Witness ==
    \E r1, r2 \in db["tweets"] :
        /\ Len(RecordOf(r1).urls) > 0
        /\ Len(RecordOf(r1).tags) > 0
        /\ Len(RecordOf(r2).user_mentions) > 0
        /\ Len(RecordOf(r2).media) > 0

\* C9 as stated, of the runs in which only the store fails statements: when
\* a batch of the batch loader fails, the rows of the batches that were
\* completed before it are in the committed store.
C9_CompletedBatchesStay ==
    OnlyStoreFailures =>
        \A c \in Conns :
            (kind[c] = "batch" /\ pc[c] = "failed") =>
                \A R \in Relations : completed[c][R] \subseteq db[R]


\* C10 as stated: _bulk_insert_sql gives every (row, key) a bind name of its
\* own: the binds hold one entry for each key of each row, and the entry of
\* row i and key k holds rows[i][k].
C10_DistinctBindNames ==
    (bpc = "done" /\ out.error = None) =>
        /\ Cardinality(DOMAIN out.binds)
              = Len(rows) * Cardinality(Keys(rows[1]))
        /\ \A i \in 1..Len(rows) : \A j \in 1..Len(rows[i]) :
              out.binds[BindName(rows[i][j].key, i - 1)] = rows[i][j].value

\* the keys of a row in the order of the dictionary, row.keys()
KeyOrder(row) == [j \in 1..Len(row) |-> row[j].key]

\* C11 as stated: the statement of _bulk_insert_sql lists its columns in
\* the key order of the first row, and every value tuple lists its
\* placeholders in that order.
C11_FirstDraftKeyOrder ==
    (bpc = "done" /\ out.error = None) =>
        /\ out.sql.columns = KeyOrder(rows[1])
        /\ \A i \in 1..Len(rows) :
              out.sql.values[i] =
                  [j \in 1..Len(rows[1]) |->
                      BindName(rows[1][j].key, i - 1)]

\* C12: _bulk_insert_sql returns a statement exactly when rows is not empty
\* and every row has the key set of the first row; an empty list ends with
\* the empty-input error, rows with differing key sets end with the
\* shape-mismatch error, and a call that ends with an error gives neither a
\* statement nor binds.
C12_ErrorConditions ==
    bpc = "done" =>
        LET same == \A i \in 1..Len(rows) : Keys(rows[i]) = Keys(rows[1]) IN
        /\ (out.error = None) <=> (rows # <<>> /\ same)
        /\ (rows = <<>>) => (out.error = EmptyError)
        /\ (rows # <<>> /\ ~same) => (out.error = ShapeError)
        /\ (out.error # None) => (out.sql = None /\ out.binds = None)
        /\ (out.error = None) =>
              /\ Len(out.sql.values) = Len(rows)
              /\ DOMAIN out.binds # {}

C12_Witness ==
    /\ bpc = "done"
    /\ out.error = ShapeError
    /\ Len(rows) >= 2
    /\ Keys(rows[Len(rows)]) \subseteq Keys(rows[1])

\* The case of C13 does not arise: every draft list of _insert_tweets is
\* filled by one append with a fixed set of keys, so the shape check of
\* _bulk_insert_sql never fails for a batch.
DraftListsHomogeneous ==
    \A c \in Conns :
        /\ err[c] # "ValueError"
        /\ \A l \in DOMAIN lists[c] : SameKeys(lists[c][l])

\* the members of the chunks, in order
RECURSIVE Concat(_)
Concat(chunks) ==
    IF chunks = <<>> THEN <<>> ELSE Head(chunks) \o Concat(Tail(chunks))

\* C14: for n >= 1, batch(iterable, n) splits the list into consecutive
\* chunks: every chunk but the last has exactly n members, the last has
\* between 1 and n (so no chunk is empty and an empty list gives no chunk),
\* and the chunks concatenated in order are the list.  These sizes leave one
\* choice of boundaries, which the length and n alone decide.
C14_Chunks ==
    (bpc = "done" /\ args.f = "batch") =>
        /\ \A i \in 1..(Len(out) - 1) : Len(out[i]) = args.n
        /\ \A i \in 1..Len(out) : Len(out[i]) \in 1..args.n
        /\ (args.iterable = <<>>) => (out = <<>>)
        /\ Concat(out) = args.iterable

C14_Witness ==
    /\ bpc = "done"
    /\ args.f = "batch"
    /\ Len(out) >= 3
    /\ Len(out[Len(out)]) < args.n

\* the number of null characters of a text
RECURSIVE Nulls(_)
Nulls(chars) ==
    IF chars = <<>> THEN 0
    ELSE (IF Head(chars) = Nul THEN 1 ELSE 0) + Nulls(Tail(chars))

\* the text holds the escape sequence from its character i on
EscapedAt(chars, i) ==
    /\ i + Len(Escaped) - 1 <= Len(chars)
    /\ SubSeq(chars, i, i + Len(Escaped) - 1) = Escaped

SelectedGeometry(t) ==
    IF t.geo # None THEN <<"POINT", t.geo>>
    ELSE IF t.place \notin {None, "nobbox"} THEN <<"MULTIPOLYGON", t.place>>
    ELSE <<None, None>>

\* C15 as stated: geometry selection never fails (no loader ends with an
\* exception of the geometry block, of the read of its locals or of the
\* parse of the text built from them), and every Post draft of a batch has
\* the geometry of the fixed precedence: the point if the record has
\* coordinates, else the bounding box of its place if it has one, else a
\* null tag and null coordinates.
C15_GeometrySelection ==
    \A c \in Conns :
        /\ err[c] \notin {"TypeError", "UnboundLocalError", "InternalError"}
        /\ \A i \in 1..Len(lists[c].tweets) :
              <<lists[c].tweets[i].geo_str, lists[c].tweets[i].geo_coords>>
                  = SelectedGeometry(input_tweets[c][i])

\* the Post draft the fields of a record give by themselves: the one built
\* from the locals as they are when no record came before
OwnDraft(t) ==
    LET g == Geometry(t, Unbound, Unbound) IN
    TweetDraft(t, g.geo_str, g.geo_coords)

\* C18 as stated: in _insert_tweets the Post draft of a record depends on
\* that record alone: whatever records precede it in its batch, the draft
\* appended to tweets for it, its geo_str and geo_coords included, is the
\* one its own fields give, so that no value computed for an earlier record
\* is found in it.
C18_DraftOfRecordAlone ==
    \A c \in Conns :
        \A i \in 1..Len(lists[c].tweets) :
            lists[c].tweets[i] = OwnDraft(input_tweets[c][i])

\* loader c is between two batches (the batch of load_tweets.py is one
\* record), or has ended
Ended(c) == pc[c] \in {"start", "read", "batches", "done", "failed"}

InGetIdUrls(c) == pc[c] \in {"giu_insert", "giu_select"}

\* C17: with several loaders on overlapping inputs and one store, under
\* fair scheduling and the store's deadlock detection no operation blocks
\* forever: every started batch ends, every get_id_urls call ends, and a
\* loader that failed has an error for its caller.
C17_NoBlockingForever ==
    \A c \in Conns :
        /\ (~Ended(c)) ~> Ended(c)
        /\ InGetIdUrls(c) ~> ~InGetIdUrls(c)
        /\ [](pc[c] = "failed" => err[c] # None)

C17_Witness ==
    \E c \in Conns : \E d \in Conns \ {c} :
        /\ err[c] = "DeadlockDetected"
        /\ pc[d] = "done"
        /\ db["urls"] # {}

=============================================================================
